---- MODULE Spec2Model ----
(***************************************************************************)
(* A model of the simulation core of syntax_strife: the RoboBot            *)
(* stack-machine interpreter, its per-tick driver, bullets and the Arena   *)
(* world step.  The repository holds the engine twice, in src/strifelib.py *)
(* and in src/strife.py; the two differ in BOT_RADIUS and in               *)
(* scan_for_enemies, and the variable build says which one runs.           *)
(*                                                                         *)
(* Representation choices.                                                 *)
(*  - A token is a TLA+ string, exactly the string tokenize() produces.    *)
(*  - A stack value is a tagged record: t = "int" (n is the integer),      *)
(*    t = "float" (n is the value in thousandths), t = "str" (s).          *)
(*  - Every Python float (positions, health after damage, scan results)    *)
(*    is a fixed-point number in thousandths; IEEE rounding is not         *)
(*    modelled.  math.cos/math.sin are Bhaskara's rational approximation,  *)
(*    exact at the multiples of 30 and 90 degrees.                         *)
(*  - pc is the 0-based token index of the code.                           *)
(***************************************************************************)
EXTENDS Integers, Sequences, FiniteSets, TLC

\* ------------------------------------------------------------------ constants

MAX_HEALTH == 100
MAX_ENERGY == 100
RadiusLib == 10
RadiusApp == 20
ConeDegrees == 3
ops_per_tick == 50
StackLimit == 100
max_range == 1000
\* The default of Arena.__init__'s size parameter.
DefaultSize == <<400, 400>>
EnergyRegen == 5
AimCost == 2

\* One unit of the code's floats in the fixed-point representation.
Milli == 1000

\* Bound on the number of Arena.tick calls the driver makes (max_ticks).
MaxTicks == 6

\* The same bound for the battles that are followed until every bullet has
\* left the arena.
LongTicks == 70

\* ------------------------------------------------------------------ state

VARIABLES
    build,        \* which source file runs: "strifelib" or "strife"
    size,         \* arena.size: <<width, height>>
    robots,       \* every RoboBot object created, by id (creation order)
    bots,         \* arena.bots: the ids of the listed bots, in insertion order
    bullets,      \* arena.bullets
    new_bullets,  \* the local list of update_bullets
    tick_count,   \* arena.tick_count
    phase,        \* where the driver is: "idle" between calls, "tick" at the
                  \* head of the for loop of Arena.tick, "loop" inside the
                  \* opcode loop of bots[cur], "hits" in the hit loop
    cur,          \* index in bots of the bot being ticked
    bi,           \* index in bullets of the bullet being hit-tested
    ticked,       \* history: the ids whose RoboBot.tick was called in the
                  \* current (or, when idle, the last) Arena.tick, in order
    starved       \* history: for every bot, by id, the number of its latest
                  \* RoboBot.tick calls in a row that returned at line 81,
                  \* the energy still negative after the regeneration

Builds == {"strifelib", "strife"}
BOT_RADIUS == IF build = "strife" THEN RadiusApp ELSE RadiusLib
ArenaW == size[1]
ArenaH == size[2]

\* ------------------------------------------------------------------ values

IntV(n) == [t |-> "int", n |-> n, s |-> ""]
FloatV(m) == [t |-> "float", n |-> m, s |-> ""]
StrV(str) == [t |-> "str", n |-> 0, s |-> str]

IsNum(v) == v.t \in {"int", "float"}

\* The numeric value of an int or float, in thousandths.
MilliOf(v) == IF v.t = "int" THEN v.n * Milli ELSE v.n

Abs(n) == IF n < 0 THEN -n ELSE n

\* Python's truth value of a stack item: non-zero number, non-empty string.
Truthy(v) == IF v.t = "str" THEN v.s # "" ELSE v.n # 0

\* Truncation toward zero of a number given in thousandths (int(float)).
TruncMilli(m) == IF m >= 0 THEN m \div Milli ELSE -((-m) \div Milli)

\* Python's floor division and modulo on integers (divisor non-zero).
PyFloorDiv(a, b) == IF b > 0 THEN a \div b ELSE (-a) \div (-b)
PyMod(a, b) == a - b * PyFloorDiv(a, b)

\* ------------------------------------------------------------------ strings

CharAt(str, i) == SubSeq(str, i, i)
startswith(str, c) == Len(str) >= 1 /\ CharAt(str, 1) = c
endswith(str, c) == Len(str) >= 1 /\ CharAt(str, Len(str)) = c
\* str[1:-1] and str[:-1] of Python ("" when the string is too short).
Interior(str) == IF Len(str) >= 2 THEN SubSeq(str, 2, Len(str) - 1) ELSE ""
DropLast(str) == IF Len(str) >= 1 THEN SubSeq(str, 1, Len(str) - 1) ELSE ""

Digits == "0123456789"
IsDigit(c) == \E i \in 1..10 : CharAt(Digits, i) = c
DigitVal(c) == (CHOOSE i \in 1..10 : CharAt(Digits, i) = c) - 1
AllDigits(str) == \A i \in 1..Len(str) : IsDigit(CharAt(str, i))

RECURSIVE DigitsValue(_)
DigitsValue(str) ==
    IF Len(str) = 0 THEN 0
    ELSE 10 * DigitsValue(DropLast(str)) + DigitVal(CharAt(str, Len(str)))

Unsigned(str) ==
    IF startswith(str, "+") \/ startswith(str, "-")
    THEN SubSeq(str, 2, Len(str)) ELSE str
SignOf(str) == IF startswith(str, "-") THEN -1 ELSE 1

\* Position of the first "." of str, 0 when there is none.
DotAt(str) ==
    IF \E i \in 1..Len(str) : CharAt(str, i) = "."
    THEN CHOOSE i \in 1..Len(str) :
            CharAt(str, i) = "." /\ \A j \in 1..(i - 1) : CharAt(str, j) # "."
    ELSE 0

\* int(str): optional sign and decimal digits.
PyIntOfStr(str) ==
    LET u == Unsigned(str) IN
    IF Len(u) >= 1 /\ AllDigits(u)
    THEN [ok |-> TRUE, n |-> SignOf(str) * DigitsValue(u)]
    ELSE [ok |-> FALSE, n |-> 0]

\* int(float(token)): optional sign, digits, optional fraction; truncated.
\* (Exponent, underscore, inf and nan forms are in no program of this model:
\* the first two parse in Python, the last two fail in int().)
ParseNumber(token) ==
    LET u == Unsigned(token)
        d == DotAt(u)
        ip == IF d = 0 THEN u ELSE SubSeq(u, 1, d - 1)
        fp == IF d = 0 THEN "" ELSE SubSeq(u, d + 1, Len(u))
    IN  IF AllDigits(ip) /\ AllDigits(fp) /\ Len(ip) + Len(fp) >= 1
        THEN [ok |-> TRUE, n |-> SignOf(token) * DigitsValue(ip)]
        ELSE [ok |-> FALSE, n |-> 0]

\* int(x) of a stack item.
PyInt(v) ==
    IF v.t = "int" THEN [ok |-> TRUE, n |-> v.n]
    ELSE IF v.t = "float" THEN [ok |-> TRUE, n |-> TruncMilli(v.n)]
    ELSE PyIntOfStr(v.s)

\* ------------------------------------------------------------------ arithmetic

\* Printable ASCII in code-point order (the backquote, which a TLA+ string
\* cannot hold, left out), for Python's string comparison.
Ascii == " !\"#$%&'()*+,-./0123456789:;<=>?@ABCDEFGHIJKLMNOPQRSTUVWXYZ[\\]^_abcdefghijklmnopqrstuvwxyz{|}~"
Ord(c) == CHOOSE i \in 1..Len(Ascii) : CharAt(Ascii, i) = c
MinOf(a, b) == IF a < b THEN a ELSE b
MaxOf(a, b) == IF a > b THEN a ELSE b

StrLess(a, b) ==
    \E k \in 0..MinOf(Len(a), Len(b)) :
        /\ SubSeq(a, 1, k) = SubSeq(b, 1, k)
        /\ \/ k = Len(a) /\ k < Len(b)
           \/ /\ k < Len(a) /\ k < Len(b)
              /\ Ord(CharAt(a, k + 1)) < Ord(CharAt(b, k + 1))

RECURSIVE Repeat(_, _)
Repeat(str, n) == IF n <= 0 THEN "" ELSE str \o Repeat(str, n - 1)

BothInt(a, b) == a.t = "int" /\ b.t = "int"
BothNum(a, b) == IsNum(a) /\ IsNum(b)
BothStr(a, b) == a.t = "str" /\ b.t = "str"
Bad == [ok |-> FALSE, v |-> IntV(0)]
Good(v) == [ok |-> TRUE, v |-> v]
Flag(c) == IntV(IF c THEN 1 ELSE 0)

\* a == b of Python on stack items.
PyEq(a, b) ==
    IF BothNum(a, b) THEN MilliOf(a) = MilliOf(b)
    ELSE IF BothStr(a, b) THEN a.s = b.s
    ELSE FALSE

\* The binary operators of execute_next: a <op> b, with Python's dynamic
\* typing.  ok = FALSE stands for the exception Python raises.
BinOp(op, a, b) ==
    CASE op = "+" ->
            IF BothInt(a, b) THEN Good(IntV(a.n + b.n))
            ELSE IF BothNum(a, b) THEN Good(FloatV(MilliOf(a) + MilliOf(b)))
            ELSE IF BothStr(a, b) THEN Good(StrV(a.s \o b.s))
            ELSE Bad
      [] op = "-" ->
            IF BothInt(a, b) THEN Good(IntV(a.n - b.n))
            ELSE IF BothNum(a, b) THEN Good(FloatV(MilliOf(a) - MilliOf(b)))
            ELSE Bad
      [] op = "*" ->
            IF BothInt(a, b) THEN Good(IntV(a.n * b.n))
            ELSE IF BothNum(a, b)
                 THEN Good(FloatV((MilliOf(a) * MilliOf(b)) \div Milli))
            ELSE IF a.t = "str" /\ b.t = "int" THEN Good(StrV(Repeat(a.s, b.n)))
            ELSE IF a.t = "int" /\ b.t = "str" THEN Good(StrV(Repeat(b.s, a.n)))
            ELSE Bad
      [] op = "/" ->
            IF ~BothNum(a, b) \/ b.n = 0 THEN Bad
            ELSE IF BothInt(a, b) THEN Good(IntV(PyFloorDiv(a.n, b.n)))
            ELSE Good(FloatV(PyFloorDiv(MilliOf(a), MilliOf(b)) * Milli))
      [] op = "%" ->
            \* str % x is Python's string formatting; it raises for every
            \* string without a conversion specifier.
            IF ~BothNum(a, b) \/ b.n = 0 THEN Bad
            ELSE IF BothInt(a, b) THEN Good(IntV(PyMod(a.n, b.n)))
            ELSE Good(FloatV(PyMod(MilliOf(a), MilliOf(b))))
      [] op = "<" ->
            IF BothNum(a, b) THEN Good(Flag(MilliOf(a) < MilliOf(b)))
            ELSE IF BothStr(a, b) THEN Good(Flag(StrLess(a.s, b.s)))
            ELSE Bad
      [] op = ">" ->
            IF BothNum(a, b) THEN Good(Flag(MilliOf(a) > MilliOf(b)))
            ELSE IF BothStr(a, b) THEN Good(Flag(StrLess(b.s, a.s)))
            ELSE Bad
      [] op = "==" -> Good(Flag(PyEq(a, b)))

BinOps == {"+", "-", "*", "/", "%", "<", ">", "=="}

\* ------------------------------------------------------------------ geometry

\* Bhaskara's approximation of 1000 * sin(d degrees), d in 0..359.
SinMilli(d) ==
    LET h(x) == (4 * Milli * x * (180 - x)) \div (40500 - x * (180 - x))
    IN  IF d <= 180 THEN h(d) ELSE -h(d - 180)
CosMilli(d) == SinMilli((d + 90) % 360)

\* floor(sqrt(n)) for n >= 0, by bisection on [lo, hi].
RECURSIVE SqrtBetween(_, _, _)
SqrtBetween(n, lo, hi) ==
    IF lo >= hi THEN lo
    ELSE LET mid == (lo + hi + 1) \div 2
         IN  IF mid * mid <= n THEN SqrtBetween(n, mid, hi)
             ELSE SqrtBetween(n, lo, mid - 1)
ISqrt(n) == SqrtBetween(n, 0, 40000)

\* Mutant: the turn is never taken the short way round.
direction_change_cost_long(current, new) == Abs(current - new)

calculate_direction_change_cost(current, new) ==
    LET diff == Abs(current - new)
    IN  IF diff > 180 THEN 360 - diff ELSE diff

\* ------------------------------------------------------------------ programs

\* The token streams tokenize() yields for the bot programs of the model,
\* by file name.
Program ==
    [ loop |-> <<"loop:", "\"loop\"", "JUMP">>,
      div0 |-> <<"0", "0", "/">>,
      mod0 |-> <<"5", "0", "%">>,
      underflow |-> <<"1", "+">>,
      badstore |-> <<"1", "2", "STORE">>,
      nolabel |-> <<"\"nowhere\"", "JUMP">>,
      badtoken |-> <<"FOO">>,
      push |-> [i \in 1..(StackLimit + 3) |-> "7"],
      call |-> <<"7", "\"sub\"", "CALL", "end:", "0", "\"end\"", "JUMP",
                 "sub:", "\"x\"", "STORE", "\"x\"", "LOAD", "RETURN">>,
      shoot |-> <<"180", "SETAIM", "5", "FIRE", "1", "FIRE",
                  "loop:", "\"loop\"", "JUMP">>,
      west |-> <<"-90", "SETTRACKS", "999", "SETSPEED",
                 "loop:", "\"loop\"", "JUMP">>,
      corner |-> <<"315", "SETTRACKS", "3", "SETSPEED",
                   "loop:", "\"loop\"", "JUMP">>,
      east |-> <<"450", "SETTRACKS", "10.9", "SETSPEED", "725", "SETAIM",
                 "-5", "SETSPEED", "-721", "SETAIM", "7", "SETSPEED",
                 "loop:", "\"loop\"", "JUMP">>,
      misc |-> <<"X", "Y", "+", "\"v\"", "STORE", "TRACKS", "AIM",
                 "SPEED", "HEALTH", "ENERGY", "IFELSE", "DUP", "DROP",
                 "\"v\"", "LOAD", ">", "\"skip\"", "JUMPIF", "SCAN", "DROP",
                 "skip:", "3", "2", "*", "7", "-", "1", "==", "0", "<",
                 "\"sub\"", "CALLIF", "1", "\"sub\"", "CALLIF",
                 "sub:", "9", "SWAP", "RETURN">>,
      gunner |-> <<"9", "SETSPEED", "180", "SETAIM", "99", "FIRE", "0", "FIRE",
                   "-3", "FIRE", "10", "FIRE", "10", "FIRE", "10", "FIRE",
                   "7", "FIRE", "loop:", "\"loop\"", "JUMP">>,
      turn |-> <<"10", "SETTRACKS", "350", "SETTRACKS", "170", "SETTRACKS",
                 "loop:", "\"loop\"", "JUMP">>,
      qlabel |-> <<"7", "\"top\":", "DROP", "\"top\"", "JUMP">>,
      vars |-> <<"5", "\"a\"", "STORE", "7", "\"b\"", "STORE",
                 "6", "\"a\"", "STORE", "\"a\"", "LOAD", "\"c\"", "LOAD",
                 "\"b\"", "9", "STORE">>,
      s4 |-> <<"180", "SETAIM", "5", "FIRE", "loop:", "\"loop\"", "JUMP">>,
      scanner |-> <<"SCAN", "loop:", "\"loop\"", "JUMP">>,
      spin |-> <<"10", "FIRE", "10", "FIRE", "10", "FIRE", "10", "FIRE",
                 "10", "FIRE", "180", "SETTRACKS", "loop:", "\"loop\"", "JUMP">>,
      negjump |-> <<"-2", "JUMP", "7", "DROP">> ]

ProgramNames == DOMAIN Program

\* The command lines of the model: the program files given to the driver,
\* which adds one bot per file, in order, before the first tick.
CommandLines ==
    { <<"loop", "div0">>, <<"div0", "loop">>, <<"mod0", "underflow">>,
      <<"badstore", "nolabel">>, <<"badtoken", "call">>, <<"call", "loop">>,
      <<"push", "loop">>, <<"shoot", "loop">>, <<"loop", "shoot">>,
      <<"shoot", "div0">>, <<"shoot", "shoot">>, <<"west", "east">>,
      <<"corner", "misc">>, <<"misc", "west">>, <<"gunner", "turn">>,
      <<"qlabel", "vars">> }

\* The positions random.randint gives a new bot in the model (a subset of
\* [0, W] x [0, H]): two corners and two points one bullet step apart.
SpawnPoints == { <<0, 0>>, <<400, 400>>, <<100, 100>>, <<100, 120>> }

\* The battles followed for LongTicks ticks: the arena size, the program
\* files in command-line order, and the positions random.randint gives the
\* bots.  A shooter with one or two targets 200 below it, and in a tall
\* arena with a target 1005 below it; a bot that faults 20 above a scanning
\* bot, and a third bot; a scanning bot alone; a bot that spends all its
\* energy and then turns by 180 degrees; a bot that jumps to a negative
\* address.
LongBattles ==
    { [ size |-> <<400, 400>>,
        names |-> <<"s4", "loop", "loop">>,
        points |-> << <<100, 100>>, <<100, 300>>, <<100, 300>> >> ],
      [ size |-> <<400, 1200>>,
        names |-> <<"s4", "loop">>,
        points |-> << <<100, 100>>, <<100, 1105>> >> ],
      [ size |-> <<400, 400>>,
        names |-> <<"div0", "scanner", "loop">>,
        points |-> << <<100, 100>>, <<100, 120>>, <<100, 300>> >> ],
      [ size |-> <<400, 400>>,
        names |-> <<"scanner">>,
        points |-> << <<100, 120>> >> ],
      [ size |-> <<400, 400>>,
        names |-> <<"spin">>,
        points |-> << <<100, 100>> >> ],
      [ size |-> <<400, 400>>,
        names |-> <<"negjump">>,
        points |-> << <<100, 100>> >> ] }

\* ------------------------------------------------------------------ RoboBot

\* find_labels: label name -> index of the token after its last definition.
LabelName(token) ==
    LET label_name == DropLast(token)
    IN  IF startswith(label_name, "\"") /\ endswith(label_name, "\"")
        THEN Interior(label_name) ELSE label_name

find_labels(tokens) ==
    LET defs == {i \in 1..Len(tokens) : endswith(tokens[i], ":")}
        names == {LabelName(tokens[i]) : i \in defs}
    IN  [n \in names |->
            CHOOSE i \in defs :
                /\ LabelName(tokens[i]) = n
                /\ \A j \in defs : LabelName(tokens[j]) = n => j <= i]

Labels == [p \in ProgramNames |-> find_labels(Program[p])]

\* RoboBot.__init__ (position is set by add_bot).
NewBot(name, position) ==
    [ name |-> name,
      position |-> position,
      health |-> IntV(MAX_HEALTH),
      energy |-> MAX_ENERGY,
      tracks_direction |-> 0,
      aim_direction |-> 0,
      speed |-> 0,
      pc |-> 0,
      stack |-> <<>>,
      variables |-> <<>>,
      ops_executed |-> 0 ]

tokens(self) == Program[self.name]
labels(self) == Labels[self.name]

\* Mutant: no boundary check.
Clamp_none(lo, hi, v) == v

\* Clamp v to [lo, hi]: max(lo, min(hi, v)).
Clamp(lo, hi, v) == MaxOf(lo, MinOf(hi, v))

\* RoboBot.move: the position after one tick of motion.
move(self) ==
    IF self.speed > 0
    THEN LET rad == (self.tracks_direction - 90) % 360
             dx == CosMilli(rad) * self.speed
             dy == SinMilli(rad) * self.speed
             new_x == Clamp(0, ArenaW * Milli, self.position[1] + dx)
             new_y == Clamp(0, ArenaH * Milli, self.position[2] + dy)
         IN  [self EXCEPT !.position = <<new_x, new_y>>]
    ELSE self

\* get_address_from_item: ok = FALSE is the KeyError of an unknown label
\* (or of a float, which is no key of the label index).
get_address_from_item(self, stack_item) ==
    IF stack_item.t = "int" THEN [ok |-> TRUE, n |-> stack_item.n]
    ELSE IF stack_item.t = "str" /\ stack_item.s \in DOMAIN labels(self)
         THEN [ok |-> TRUE, n |-> labels(self)[stack_item.s]]
         ELSE [ok |-> FALSE, n |-> 0]

\* fire_weapon: the Bullet appended to arena.bullets; owner is the bot's id.
fire_weapon(id, self, power) ==
    [ position |-> self.position,
      direction |-> self.aim_direction,
      power |-> power,
      speed |-> 10 + power,
      owner |-> id,
      distance_traveled |-> 0 ]

\* scan_for_enemies of strifelib.py: distance along the aim ray to the
\* nearest other bot of arena.bots the ray enters, as a float; the integer 0
\* when there is none.  arena_bots is the list of bot ids, objs the bots by
\* id.
ScanHit(self, bot) ==
    LET dx == bot.position[1] - self.position[1]
        dy == bot.position[2] - self.position[2]
        aim_rad == (self.aim_direction - 90) % 360
        aim_x == CosMilli(aim_rad)
        aim_y == SinMilli(aim_rad)
        t == (dx * aim_x + dy * aim_y) \div Milli
        perpendicular_dx == self.position[1] + (aim_x * t) \div Milli
                                - bot.position[1]
        perpendicular_dy == self.position[2] + (aim_y * t) \div Milli
                                - bot.position[2]
        r == BOT_RADIUS * Milli
        \* perpendicular_distance <= bot.radius, the squares kept in range
        near == /\ Abs(perpendicular_dx) <= r
                /\ Abs(perpendicular_dy) <= r
                /\ perpendicular_dx * perpendicular_dx
                     + perpendicular_dy * perpendicular_dy <= r * r
        hit_distance == t - ISqrt(r * r - perpendicular_dx * perpendicular_dx
                                        - perpendicular_dy * perpendicular_dy)
    IN  IF t >= 0 /\ near /\ hit_distance > 0
        THEN {hit_distance} ELSE {}

\* scan_for_enemies of strife.py: the distance to the nearest other bot of
\* arena.bots whose bearing is within 3 degrees of the aim.  The bearing
\* test is made on the aim vector: the angle between it and (dx, dy) is at
\* most 3 degrees iff |cross| <= tan(3 deg) * dot; distances are taken to a
\* tenth of a unit, which keeps the squares in range.
ScanCone(self, bot) ==
    LET dx == bot.position[1] - self.position[1]
        dy == bot.position[2] - self.position[2]
        sx == TruncMilli(dx * 10)
        sy == TruncMilli(dy * 10)
        distance == ISqrt(sx * sx + sy * sy) * (Milli \div 10)
        aim_rad == (self.aim_direction - 90) % 360
        aim_x == CosMilli(aim_rad)
        aim_y == SinMilli(aim_rad)
        dot == (dx * aim_x + dy * aim_y) \div Milli
        cross == (dx * aim_y - dy * aim_x) \div Milli
        in_cone ==
            IF dx = 0 /\ dy = 0
            THEN \* atan2(0, 0) = 0: the bearing is 90 degrees
                 calculate_direction_change_cost(90, self.aim_direction)
                    <= ConeDegrees
            ELSE dot >= 0 /\ Abs(cross) * Milli <= 52 * dot + (408 * dot) \div Milli
    IN  IF in_cone THEN {distance} ELSE {}

scan_for_enemies(id, arena_bots, objs) ==
    LET others == {j \in 1..Len(arena_bots) : arena_bots[j] # id}
        hits == UNION { IF build = "strife"
                        THEN ScanCone(objs[id], objs[arena_bots[k]])
                        ELSE ScanHit(objs[id], objs[arena_bots[k]]) :
                        k \in others }
    IN  IF hits = {} THEN IntV(0)
        ELSE FloatV(CHOOSE h \in hits : \A g \in hits : h <= g)

\* The outcome of one execute_next call: the bot afterwards, the bullets it
\* appended to arena.bullets, and whether an exception left the call.
Done(b) == [bot |-> b, fired |-> <<>>, fault |-> FALSE]
Raise(b) == [bot |-> b, fired |-> <<>>, fault |-> TRUE]
Push(b, v) == [b EXCEPT !.stack = Append(@, v)]
\* The stack with its top n items popped (n <= depth).
Popped(b, n) == [b EXCEPT !.stack = SubSeq(@, 1, Len(@) - n)]
\* The item n places below the top (Peek(b, 0) is the top).
Peek(b, n) == b.stack[Len(b.stack) - n]
\* Every pop up to the one that found the stack empty has happened.
Underflow(b) == Raise([b EXCEPT !.stack = <<>>])

\* Mutant: the direction is stored unwrapped.
wrap_direction_raw(d) == d

\* int(...) % 360 of SETTRACKS and SETAIM.
wrap_direction(d) == d % 360

\* Mutant: the speed has no upper limit.
clamp_speed_open(v) == MaxOf(0, v)

\* min(10, max(0, ...)) of SETSPEED.
clamp_speed(v) == MinOf(10, MaxOf(0, v))

\* Mutant: the power has no lower limit.
clamp_power_open(v) == MinOf(10, v)

\* min(10, max(1, ...)) of FIRE.
clamp_power(v) == MinOf(10, MaxOf(1, v))

\* The actuators: pop, int(), clamp or wrap, charge energy, act.
Actuate(id, b, token) ==
    IF Len(b.stack) = 0 THEN Raise(b)
    ELSE LET arg == PyInt(Peek(b, 0))
             p == Popped(b, 1)
         IN  IF ~arg.ok THEN Raise(p)
             ELSE CASE token = "SETTRACKS" ->
                        LET new_direction == wrap_direction(arg.n)
                            energy_cost == calculate_direction_change_cost(
                                              b.tracks_direction, new_direction)
                        IN  Done([p EXCEPT !.energy = @ - energy_cost,
                                           !.tracks_direction = new_direction])
                    [] token = "SETAIM" ->
                        LET new_direction == wrap_direction(arg.n)
                        IN  Done([p EXCEPT !.energy = @ - AimCost,
                                           !.aim_direction = new_direction])
                    [] token = "SETSPEED" ->
                        LET new_speed == clamp_speed(arg.n)
                        IN  Done([p EXCEPT !.energy = @ - new_speed,
                                           !.speed = new_speed])
                    [] token = "FIRE" ->
                        LET power == clamp_power(arg.n)
                            q == [p EXCEPT !.energy = @ - 2 * power]
                        IN  [bot |-> q,
                             fired |-> <<fire_weapon(id, q, power)>>,
                             fault |-> FALSE]

Actuators == {"SETTRACKS", "SETAIM", "SETSPEED", "FIRE"}

\* JUMP, RETURN, JUMPIF, CALL, CALLIF.  b.pc is already the index of the
\* next token.
Control(b, token) ==
    IF Len(b.stack) = 0 THEN Raise(b)
    ELSE LET target == get_address_from_item(b, Peek(b, 0))
             p == Popped(b, 1)
         IN  IF ~target.ok THEN Raise(p)
             ELSE CASE token \in {"JUMP", "RETURN"} ->
                        Done([p EXCEPT !.pc = target.n])
                    [] token = "JUMPIF" ->
                        IF Len(p.stack) = 0 THEN Raise(p)
                        ELSE IF Truthy(Peek(p, 0))
                             THEN Done([Popped(p, 1) EXCEPT !.pc = target.n])
                             ELSE Done(Popped(p, 1))
                    [] token = "CALL" ->
                        \* line 281 reads the undefined name `label`: the
                        \* return address is pushed, then NameError.
                        Raise(Push(p, IntV(b.pc)))
                    [] token = "CALLIF" ->
                        IF Len(p.stack) = 0 THEN Raise(p)
                        ELSE IF Truthy(Peek(p, 0))
                             THEN Done([Push(Popped(p, 1), IntV(b.pc))
                                          EXCEPT !.pc = target.n])
                             ELSE Done(Popped(p, 1))

Controls == {"JUMP", "RETURN", "JUMPIF", "CALL", "CALLIF"}

\* Mutant: the value is popped first, the name second.
store_value_first(b) ==
    IF Len(b.stack) < 2 THEN Underflow(b)
    ELSE LET value == Peek(b, 0)
             var_name == Peek(b, 1)
         IN  IF var_name.t # "str" THEN Raise(Popped(b, 2))
             ELSE Done([Popped(b, 2) EXCEPT
                         !.variables = (var_name.s :> value) @@ @])

\* STORE, lines 299-304: the name is popped first, the value second.
store_variable(b) ==
    IF Len(b.stack) < 2 THEN Underflow(b)
    ELSE LET var_name == Peek(b, 0)
             value == Peek(b, 1)
         IN  IF var_name.t # "str" THEN Raise(Popped(b, 2))
             ELSE Done([Popped(b, 2) EXCEPT
                         !.variables = (var_name.s :> value) @@ @])

\* The dispatch of execute_next on a fetched token; b has pc and
\* ops_executed already advanced.
Dispatch(id, b, token, arena_bots, objs) ==
    IF endswith(token, ":") /\ DropLast(token) \in DOMAIN labels(b) THEN Done(b)
    ELSE IF token = "X" THEN Done(Push(b, IntV(TruncMilli(b.position[1]))))
    ELSE IF token = "Y" THEN Done(Push(b, IntV(TruncMilli(b.position[2]))))
    ELSE IF token = "TRACKS" THEN Done(Push(b, IntV(b.tracks_direction)))
    ELSE IF token = "AIM" THEN Done(Push(b, IntV(b.aim_direction)))
    ELSE IF token = "SPEED" THEN Done(Push(b, IntV(b.speed)))
    ELSE IF token = "HEALTH" THEN Done(Push(b, b.health))
    ELSE IF token = "ENERGY" THEN Done(Push(b, IntV(b.energy)))
    ELSE IF token = "SCAN"
         THEN Done(Push(b, scan_for_enemies(id, arena_bots, objs)))
    ELSE IF token \in Actuators THEN Actuate(id, b, token)
    ELSE IF token = "DUP"
         THEN IF Len(b.stack) = 0 THEN Raise(b) ELSE Done(Push(b, Peek(b, 0)))
    ELSE IF token = "DROP"
         THEN IF Len(b.stack) = 0 THEN Raise(b) ELSE Done(Popped(b, 1))
    ELSE IF token = "SWAP"
         THEN IF Len(b.stack) < 2 THEN Raise(b)
              ELSE Done(Push(Push(Popped(b, 2), Peek(b, 0)), Peek(b, 1)))
    ELSE IF token = "IFELSE"
         THEN IF Len(b.stack) < 3 THEN Underflow(b)
              ELSE Done(Push(Popped(b, 3),
                             IF Truthy(Peek(b, 2)) THEN Peek(b, 1)
                             ELSE Peek(b, 0)))
    ELSE IF token \in BinOps
         THEN IF Len(b.stack) < 2 THEN Underflow(b)
              ELSE LET r == BinOp(token, Peek(b, 1), Peek(b, 0))
                   IN  IF r.ok THEN Done(Push(Popped(b, 2), r.v))
                       ELSE Raise(Popped(b, 2))
    ELSE IF token \in Controls THEN Control(b, token)
    ELSE IF startswith(token, "\"") /\ endswith(token, "\"")
         THEN Done(Push(b, StrV(Interior(token))))
    ELSE IF token = "STORE" THEN store_variable(b)
    ELSE IF token = "LOAD"
         THEN IF Len(b.stack) = 0 THEN Raise(b)
              ELSE LET var_name == Peek(b, 0)
                   IN  IF var_name.t # "str" THEN Raise(Popped(b, 1))
                       ELSE IF var_name.s \in DOMAIN b.variables
                            THEN Done(Push(Popped(b, 1), b.variables[var_name.s]))
                            ELSE Done(Push(Popped(b, 1), IntV(0)))
    ELSE LET value == ParseNumber(token)
         IN  IF value.ok THEN Done(Push(b, IntV(value.n))) ELSE Raise(b)

\* execute_next: the overflow check, the fetch (Python indexes from the end
\* for a negative pc), the pc and opcode-counter advance, the dispatch.
execute_next(id, arena_bots, objs) ==
    LET self == objs[id]
        n == Len(tokens(self))
    IN  IF Len(self.stack) > StackLimit THEN Raise(self)
        ELSE IF self.pc >= n \/ self.pc < -n THEN Raise(self)
        ELSE LET token == tokens(self)[(self.pc % n) + 1]
                 b == [self EXCEPT !.pc = @ + 1, !.ops_executed = @ + 1]
             IN  Dispatch(id, b, token, arena_bots, objs)

\* Mutant: a tick gives no energy back.
regain_none(energy) == energy

\* self.energy += 5, line 79.
regain(energy) == energy + EnergyRegen

\* Mutant: the energy is not capped.
cap_energy_none(e) == e

\* Lines 82-83: the energy is capped at MAX_ENERGY.
cap_energy(e) == MinOf(e, MAX_ENERGY)

\* Mutant: the bot moves before its energy is looked at.
tick_enter_move_first(self) ==
    IF MilliOf(self.health) <= 0 THEN [bot |-> self, running |-> FALSE]
    ELSE LET e == regain(self.energy)
         IN  IF e < 0
             THEN [bot |-> move([self EXCEPT !.energy = e]), running |-> FALSE]
             ELSE [bot |-> [move([self EXCEPT !.energy = cap_energy(e)])
                              EXCEPT !.ops_executed = 0],
                   running |-> TRUE]

\* The bot after the preamble of RoboBot.tick (lines 77-85), and whether it
\* goes on to the opcode loop.
tick_enter(self) ==
    IF MilliOf(self.health) <= 0 THEN [bot |-> self, running |-> FALSE]
    ELSE LET e == regain(self.energy)
         IN  IF e < 0
             THEN [bot |-> [self EXCEPT !.energy = e], running |-> FALSE]
             ELSE [bot |-> [move([self EXCEPT !.energy = cap_energy(e)])
                              EXCEPT !.ops_executed = 0],
                   running |-> TRUE]

\* Mutant: the loop guard off by one.
budget_left_inclusive(self) == self.ops_executed <= ops_per_tick

\* The guard of the while loop of RoboBot.tick.
budget_left(self) == self.ops_executed < ops_per_tick

\* Mutant: the exception is swallowed and the bot lives on.
on_fault_swallow(self) == self

\* The except clause of RoboBot.tick.
on_fault(self) == [self EXCEPT !.health = IntV(0)]

\* ------------------------------------------------------------------ Bullet

\* Mutant: a bullet that has not travelled yet stays where it was fired.
bullet_move_later(bullet) ==
    IF bullet.distance_traveled = 0 THEN bullet
    ELSE LET rad == (bullet.direction - 90) % 360
         IN  [bullet EXCEPT !.position = <<@[1] + CosMilli(rad) * bullet.speed,
                                           @[2] + SinMilli(rad) * bullet.speed>>,
                            !.distance_traveled = @ + bullet.speed]

\* Bullet.move.
bullet_move(bullet) ==
    LET rad == (bullet.direction - 90) % 360
        dx == CosMilli(rad) * bullet.speed
        dy == SinMilli(rad) * bullet.speed
    IN  [bullet EXCEPT !.position = <<@[1] + dx, @[2] + dy>>,
                       !.distance_traveled = @ + bullet.speed]

\* Mutant: a bullet never expires.
is_expired_never(bullet) == FALSE

\* Bullet.is_expired.
is_expired(bullet) == bullet.distance_traveled >= max_range

\* Mutant: a bullet on the circle of the radius hits as well.
InRadius_inclusive(bot, bullet) ==
    LET dx == bot.position[1] - bullet.position[1]
        dy == bot.position[2] - bullet.position[2]
        r == BOT_RADIUS * Milli
    IN  /\ Abs(dx) <= r
        /\ Abs(dy) <= r
        /\ dx * dx + dy * dy <= r * r

\* distance < bot.radius between a bot and a bullet, the squares kept in range.
InRadius(bot, bullet) ==
    LET dx == bot.position[1] - bullet.position[1]
        dy == bot.position[2] - bullet.position[2]
        r == BOT_RADIUS * Milli
    IN  /\ Abs(dx) < r
        /\ Abs(dy) < r
        /\ dx * dx + dy * dy < r * r

\* Mutant: the owner is hit-tested like every other bot.
is_candidate_any(id, bullet) == TRUE

\* The bots of arena.bots the inner loop of update_bullets may hit.
is_candidate(id, bullet) == id # bullet.owner

\* The index in arena.bots of the bot the bullet hits, 0 when it hits none.
hit_index(bullet, arena_bots, objs) ==
    LET cand == {k \in 1..Len(arena_bots) :
                    /\ is_candidate(arena_bots[k], bullet)
                    /\ InRadius(objs[arena_bots[k]], bullet)}
    IN  IF cand = {} THEN 0 ELSE CHOOSE k \in cand : \A j \in cand : k <= j

\* Mutant: the damage does not fall off with the distance travelled.
damage_full(bullet) == bullet.power * Milli

\* bullet.power * (1 - bullet.distance_traveled / bullet.max_range), in
\* thousandths.
damage(bullet) ==
    bullet.power * (Milli - (bullet.distance_traveled * Milli) \div max_range)

\* Mutant: a hit adds the damage to the health.
take_damage_heal(bot, bullet) ==
    [bot EXCEPT !.health = FloatV(MilliOf(@) + damage(bullet))]

\* bot.health -= damage, line 486.
take_damage(bot, bullet) ==
    [bot EXCEPT !.health = FloatV(MilliOf(@) - damage(bullet))]

\* ------------------------------------------------------------------ Arena

vars == <<build, size, robots, bots, bullets, new_bullets, tick_count, phase, cur, bi,
          ticked, starved>>

IsPrefix(a, b) == Len(a) <= Len(b) /\ SubSeq(b, 1, Len(a)) = a
Names == [k \in 1..Len(bots) |-> robots[bots[k]].name]
\* Mutant: a bot with health 0 is kept.
is_alive_at_zero(bot) == MilliOf(bot.health) >= 0

\* The filter of Arena.tick, line 456.
is_alive(bot) == MilliOf(bot.health) > 0

RECURSIVE Filter(_, _)
Filter(ids, rs) ==
    IF ids = <<>> THEN <<>>
    ELSE IF is_alive(rs[Head(ids)]) THEN <<Head(ids)>> \o Filter(Tail(ids), rs)
    ELSE Filter(Tail(ids), rs)

is_battle_over == Len(bots) <= 1

\* Mutant: the first listed bot wins, however many are left.
get_winner_first == IF Len(bots) >= 1 THEN bots[1] ELSE 0

\* Arena.get_winner: the id of the winner, 0 for None.
get_winner == IF Len(bots) = 1 THEN bots[1] ELSE 0

Init ==
    /\ build \in Builds
    /\ size = DefaultSize
    /\ robots = <<>>
    /\ bots = <<>>
    /\ bullets = <<>>
    /\ new_bullets = <<>>
    /\ tick_count = 0
    /\ phase = "idle"
    /\ cur = 0
    /\ bi = 0
    /\ ticked = <<>>
    /\ starved = <<>>

\* Arena.add_bot, called by the driver for each program file before the
\* first tick.
add_bot ==
    /\ phase = "idle"
    /\ tick_count = 0
    /\ \E name \in ProgramNames, pt \in SpawnPoints :
          /\ \E cl \in CommandLines : IsPrefix(Append(Names, name), cl)
          /\ robots' = Append(robots,
                          NewBot(name, <<pt[1] * Milli, pt[2] * Milli>>))
          /\ bots' = Append(bots, Len(robots) + 1)
    /\ starved' = Append(starved, 0)
    /\ UNCHANGED <<build, size, bullets, new_bullets, tick_count, phase, cur, bi,
                   ticked>>

\* Arena.tick, line 446: the call begins.
tick_begin ==
    /\ phase = "idle"
    /\ tick_count < MaxTicks
    /\ tick_count' = tick_count + 1
    /\ phase' = "tick"
    /\ cur' = 1
    /\ ticked' = <<>>
    /\ UNCHANGED <<build, size, starved, robots, bots, bullets, new_bullets, bi>>

\* RoboBot.tick of bots[cur] up to the opcode loop.
bot_tick ==
    /\ phase = "tick"
    /\ cur <= Len(bots)
    /\ LET r == tick_enter(robots[bots[cur]])
       IN  /\ robots' = [robots EXCEPT ![bots[cur]] = r.bot]
           /\ IF r.running
              THEN phase' = "loop" /\ cur' = cur
              ELSE phase' = "tick" /\ cur' = cur + 1
    /\ ticked' = Append(ticked, bots[cur])
    /\ starved' = [starved EXCEPT ![bots[cur]] =
                      IF MilliOf(robots[bots[cur]].health) <= 0 THEN @
                      ELSE IF tick_enter(robots[bots[cur]]).running THEN 0
                      ELSE @ + 1]
    /\ UNCHANGED <<build, size, bots, bullets, new_bullets, tick_count, bi>>

\* One pass of the opcode loop of bots[cur]: leave on an exhausted budget
\* or negative energy, else execute one opcode; a fault kills the bot.
bot_loop ==
    /\ phase = "loop"
    /\ LET id == bots[cur]
           self == robots[id]
       IN  IF ~budget_left(self) \/ self.energy < 0
           THEN /\ phase' = "tick"
                /\ cur' = cur + 1
                /\ UNCHANGED <<robots, bullets>>
           ELSE LET r == execute_next(id, bots, robots)
                IN  /\ bullets' = bullets \o r.fired
                    /\ IF r.fault
                       THEN /\ robots' = [robots EXCEPT ![id] = on_fault(r.bot)]
                            /\ phase' = "tick"
                            /\ cur' = cur + 1
                       ELSE /\ robots' = [robots EXCEPT ![id] = r.bot]
                            /\ phase' = "loop"
                            /\ cur' = cur
    /\ UNCHANGED <<build, size, starved, bots, new_bullets, tick_count, bi, ticked>>

\* Mutant: the bullets are updated before the last bot has been ticked.
update_bullets_early ==
    /\ phase = "tick"
    /\ cur >= Len(bots)
    /\ bullets' = [k \in 1..Len(bullets) |-> bullet_move(bullets[k])]
    /\ new_bullets' = <<>>
    /\ phase' = "hits"
    /\ bi' = 1
    /\ UNCHANGED <<build, size, starved, robots, bots, tick_count, cur, ticked>>

\* update_bullets, lines 461-465: every bullet moves.
update_bullets ==
    /\ phase = "tick"
    /\ cur > Len(bots)
    /\ bullets' = [k \in 1..Len(bullets) |-> bullet_move(bullets[k])]
    /\ new_bullets' = <<>>
    /\ phase' = "hits"
    /\ bi' = 1
    /\ UNCHANGED <<build, size, starved, robots, bots, tick_count, cur, ticked>>

\* update_bullets, lines 466-492: the hit test of bullets[bi].
check_hit ==
    /\ phase = "hits"
    /\ bi <= Len(bullets)
    /\ LET bullet == bullets[bi]
           k == hit_index(bullet, bots, robots)
       IN  IF is_expired(bullet)
           THEN UNCHANGED <<robots, new_bullets>>
           ELSE IF k # 0
                THEN /\ robots' = [robots EXCEPT
                                     ![bots[k]] = take_damage(@, bullet)]
                     /\ UNCHANGED new_bullets
                ELSE /\ new_bullets' = Append(new_bullets, bullet)
                     /\ UNCHANGED robots
    /\ bi' = bi + 1
    /\ UNCHANGED <<build, size, starved, bots, bullets, tick_count, phase, cur, ticked>>

\* update_bullets, line 494, and Arena.tick, line 456: the surviving bullets
\* replace the list and the dead bots leave arena.bots.
remove_dead ==
    /\ phase = "hits"
    /\ bi > Len(bullets)
    /\ bullets' = new_bullets
    /\ new_bullets' = <<>>
    /\ bots' = Filter(bots, robots)
    /\ phase' = "idle"
    /\ UNCHANGED <<build, size, starved, robots, tick_count, cur, bi, ticked>>

Next ==
    \/ add_bot
    \/ tick_begin
    \/ bot_tick
    \/ bot_loop
    \/ update_bullets
    \/ check_hit
    \/ remove_dead

Spec == Init /\ [][Next]_vars

\* The long battles: Arena(size) for the size of a battle of LongBattles.
InitLong ==
    /\ build \in Builds
    /\ size \in {battle.size : battle \in LongBattles}
    /\ robots = <<>>
    /\ bots = <<>>
    /\ bullets = <<>>
    /\ new_bullets = <<>>
    /\ tick_count = 0
    /\ phase = "idle"
    /\ cur = 0
    /\ bi = 0
    /\ ticked = <<>>
    /\ starved = <<>>

\* Arena.add_bot for the next program file of a long battle.
add_bot_long ==
    /\ phase = "idle"
    /\ tick_count = 0
    /\ \E battle \in LongBattles :
          LET k == Len(robots) + 1
          IN  /\ battle.size = size
              /\ k <= Len(battle.names)
              /\ \A j \in 1..Len(robots) :
                    /\ robots[j].name = battle.names[j]
                    /\ robots[j].position = <<battle.points[j][1] * Milli,
                                              battle.points[j][2] * Milli>>
              /\ robots' = Append(robots,
                              NewBot(battle.names[k],
                                     <<battle.points[k][1] * Milli,
                                       battle.points[k][2] * Milli>>))
              /\ bots' = Append(bots, k)
    /\ starved' = Append(starved, 0)
    /\ UNCHANGED <<build, size, bullets, new_bullets, tick_count, phase, cur, bi,
                   ticked>>

\* Arena.tick, line 446, in a long battle.
tick_begin_long ==
    /\ phase = "idle"
    /\ tick_count < LongTicks
    /\ tick_count' = tick_count + 1
    /\ phase' = "tick"
    /\ cur' = 1
    /\ ticked' = <<>>
    /\ UNCHANGED <<build, size, starved, robots, bots, bullets, new_bullets, bi>>

NextLong ==
    \/ add_bot_long
    \/ tick_begin_long
    \/ bot_tick
    \/ bot_loop
    \/ update_bullets
    \/ check_hit
    \/ remove_dead

\* The driver's loop calls Arena.tick again and again, and every call runs
\* to its end: a step that can be taken is taken.
LongSpec == InitLong /\ [][NextLong]_vars /\ WF_vars(NextLong)

\* ------------------------------------------------------------------ claims

Range(q) == {q[i] : i \in 1..Len(q)}
Ids == 1..Len(robots)
Listed(id) == id \in Range(bots)

\* The bot being ticked is about to call execute_next.
Executing ==
    /\ phase = "loop"
    /\ budget_left(robots[bots[cur]])
    /\ robots[bots[cur]].energy >= 0
Outcome == execute_next(bots[cur], bots, robots)
Faulting == Executing /\ Outcome.fault

\* C1: in every state every bot's opcode counter for the tick, ops_executed,
\* is at most ops_per_tick = 50, whatever its program, stack and energy.
C1_OpsBudget == \A id \in Ids : robots[id].ops_executed <= ops_per_tick

\* A bot has used its whole budget and its tick has returned.
C1_Witness ==
    /\ phase = "tick"
    /\ cur >= 2
    /\ robots[bots[cur - 1]].ops_executed = ops_per_tick

\* C2: a fault in execute_next is bot-fatal, never arena-fatal: the step sets
\* that bot's health to 0 and returns to the for loop of Arena.tick, which
\* goes on with the next bot and leaves every other bot as it was; a dead
\* bot executes nothing more; every listed bot has had its tick when the
\* bullets are updated; and the bot list of the finished tick holds no dead
\* bot.
C2_FaultIsBotFatal ==
    [][ /\ Faulting =>
            /\ robots'[bots[cur]].health = IntV(0)
            /\ phase' = "tick" /\ cur' = cur + 1 /\ bots' = bots
            /\ \A o \in Ids : o # bots[cur] => robots'[o] = robots[o]
        /\ \A id \in Ids : MilliOf(robots[id].health) <= 0 =>
            /\ robots'[id].pc = robots[id].pc
            /\ robots'[id].ops_executed = robots[id].ops_executed
            /\ robots'[id].stack = robots[id].stack
            /\ robots'[id].energy = robots[id].energy
        /\ (phase = "tick" /\ phase' = "hits") => ticked = bots
        /\ (phase = "hits" /\ phase' = "idle") =>
            \A id \in Ids : MilliOf(robots[id].health) <= 0 => id \notin Range(bots')
      ]_vars

\* A bot that faulted is gone while another bot, ticked in the fault's tick
\* and in a later one, is still listed.
C2_Witness ==
    /\ phase = "idle"
    /\ tick_count >= 2
    /\ \E dead \in Ids, other \in Ids :
          /\ robots[dead].health = IntV(0)
          /\ ~Listed(dead)
          /\ Listed(other)
          /\ other \in Range(ticked)
          /\ robots[other].ops_executed = ops_per_tick

\* C3: in every state the operand stack of every bot holds at most 100
\* values.
C3_StackAtMost100 == \A id \in Ids : Len(robots[id].stack) <= StackLimit

\* C4: between Arena.tick calls no listed bot has health <= 0, and a bot
\* that has left the list never returns to it, is never ticked again and is
\* never changed again (the scan and the hit test read the list only).
C4_NoDeadBotListed ==
    /\ [](phase = "idle" => \A k \in 1..Len(bots) : MilliOf(robots[bots[k]].health) > 0)
    /\ [][ \A id \in Ids : ~Listed(id) =>
              /\ id \notin Range(bots')
              /\ id \notin Range(ticked')
              /\ robots'[id] = robots[id] ]_vars

\* After a tick a dead bot has left the list and a live one is still in it.
C4_Witness ==
    /\ phase = "idle"
    /\ tick_count >= 1
    /\ \E dead \in Ids, live \in Ids :
          /\ MilliOf(robots[dead].health) <= 0 /\ ~Listed(dead)
          /\ Listed(live)

\* C5: the hit test of a bullet never changes the bullet's owner: the
\* owner's health is not reduced by its own bullet, also when the bullet is
\* within the owner's radius.
C5_NoSelfDamage ==
    [][ (phase = "hits" /\ bi <= Len(bullets)) =>
            robots'[bullets[bi].owner] = robots[bullets[bi].owner] ]_vars

\* A bullet within the radius of its listed, unharmed owner has just been
\* hit-tested.
C5_Witness ==
    /\ phase = "hits"
    /\ bi >= 2
    /\ LET bullet == bullets[bi - 1]
       IN  /\ ~is_expired(bullet)
           /\ Listed(bullet.owner)
           /\ InRadius(robots[bullet.owner], bullet)
           /\ robots[bullet.owner].health = IntV(MAX_HEALTH)

\* The step of update_bullets that moves the bullets.
MoveStep == phase = "tick" /\ phase' = "hits"
\* The step that ends the tick.
EndStep == phase = "hits" /\ phase' = "idle"

\* C6 as stated: a bullet fired in this tick (the only bullets with
\* distance_traveled = 0 when the bullets are moved) is not moved in it.
C6_FreshBulletsRest ==
    [][ MoveStep => \A k \in 1..Len(bullets) :
            bullets[k].distance_traveled = 0 => bullets'[k] = bullets[k] ]_vars

\* C6 as amended: during the bot-execution phase the bullet list only grows,
\* by bullets at rest at the firing bot's position, and no bullet moves or
\* hits; update_bullets then moves every listed bullet, those just fired
\* included, by its speed; so between ticks every listed bullet has
\* travelled at least its speed, and none rests at distance 0.
C6_FreshBulletsMoveAtTickEnd ==
    /\ [](phase = "idle" => \A k \in 1..Len(bullets) :
            bullets[k].distance_traveled >= bullets[k].speed)
    /\ [][ /\ (phase \in {"tick", "loop"} /\ ~MoveStep) =>
                /\ IsPrefix(bullets, bullets')
                /\ \A k \in (Len(bullets) + 1)..Len(bullets') :
                      /\ bullets'[k].distance_traveled = 0
                      /\ bullets'[k].position = robots[bots[cur]].position
                /\ \A id \in Ids :
                      robots'[id].health # robots[id].health => Faulting
           /\ MoveStep =>
                /\ Len(bullets') = Len(bullets)
                /\ \A k \in 1..Len(bullets) :
                      /\ bullets'[k].distance_traveled
                            = bullets[k].distance_traveled + bullets[k].speed
                      /\ bullets'[k].position # bullets[k].position
         ]_vars

\* The first tick is over: a bullet fired in it has moved once, and a bot has
\* been damaged in it.
C6_Witness ==
    /\ phase = "idle"
    /\ tick_count = 1
    /\ \E k \in 1..Len(bullets) : bullets[k].distance_traveled = bullets[k].speed
    /\ \E id \in Ids : robots[id].health.t = "float"

\* C7: the phases of Arena.tick are strictly ordered.  tick_count is
\* incremented before anything else; the bots are ticked one at a time in
\* insertion order; the bullets move in one step, after every listed bot has
\* been ticked; a bullet reduces a bot's health only after that step; and the
\* bot list is pruned only after the hit test of the last bullet.
C7_PhaseOrder ==
    [][ /\ tick_count' # tick_count =>
            /\ phase = "idle" /\ phase' = "tick"
            /\ tick_count' = tick_count + 1
            /\ UNCHANGED <<robots, bots, bullets>>
        /\ phase' # phase =>
            <<phase, phase'>> \in { <<"idle", "tick">>, <<"tick", "loop">>,
                                    <<"loop", "tick">>, <<"tick", "hits">>,
                                    <<"hits", "idle">> }
        /\ ~EndStep => IsPrefix(ticked', bots')
        /\ \A id \in Ids :
            (phase \in {"tick", "loop"} /\ robots'[id] # robots[id]) =>
                /\ id = bots[cur]
                /\ ticked' = SubSeq(bots, 1, cur)
        /\ (bullets' # bullets /\ ~EndStep) =>
            \/ phase = "loop" /\ IsPrefix(bullets, bullets')
            \/ /\ MoveStep
               /\ ticked = bots
               /\ Len(bullets') = Len(bullets)
               /\ \A k \in 1..Len(bullets) :
                     bullets'[k].distance_traveled
                        = bullets[k].distance_traveled + bullets[k].speed
        /\ \A id \in Ids :
            MilliOf(robots'[id].health) < MilliOf(robots[id].health) =>
                \/ phase = "hits"
                \/ Faulting /\ id = bots[cur]
        /\ (bots' # bots /\ tick_count > 0) =>
            /\ EndStep
            /\ bi > Len(bullets)
      ]_vars

\* The hit test of a tick with two bots is over: both were ticked, the
\* bullets have moved, and a bot that is to be pruned is still listed.
C7_Witness ==
    /\ phase = "hits"
    /\ bi > Len(bullets)
    /\ Len(bots) = 2
    /\ ticked = bots
    /\ \E k \in 1..Len(bullets) : bullets[k].distance_traveled > 0
    /\ \E id \in Ids : Listed(id) /\ MilliOf(robots[id].health) <= 0

\* The token execute_next is about to fetch.
CurrentToken ==
    LET self == robots[bots[cur]]
        n == Len(tokens(self))
    IN  IF Len(self.stack) <= StackLimit /\ self.pc < n /\ self.pc >= -n
        THEN tokens(self)[(self.pc % n) + 1] ELSE ""

\* C8: CALL with a valid target on top of the stack pops it, pushes the
\* index of the instruction after the CALL and jumps to the target without
\* faulting; RETURN with an integer on top of the stack jumps to it.
C8_CallJumps ==
    [][ LET id == bots[cur]
            self == robots[id]
            top == Peek(self, 0)
            target == get_address_from_item(self, top)
        IN  (Executing /\ Len(self.stack) >= 1 /\ target.ok) =>
               /\ CurrentToken = "CALL" =>
                    /\ robots'[id].health = self.health
                    /\ robots'[id].pc = target.n
                    /\ robots'[id].stack
                          = Append(Popped(self, 1).stack, IntV(self.pc + 1))
               /\ (CurrentToken = "RETURN" /\ top.t = "int") =>
                    /\ robots'[id].health = self.health
                    /\ robots'[id].pc = top.n
      ]_vars

\* C9: every bot is inside the arena in every state: at spawn and after
\* every move, also when it drives into a wall or a corner.
C9_InsideArena ==
    \A id \in Ids :
        /\ 0 <= robots[id].position[1] /\ robots[id].position[1] <= ArenaW * Milli
        /\ 0 <= robots[id].position[2] /\ robots[id].position[2] <= ArenaH * Milli

\* A bot in the corner (0, 0) has driven up and to the left, into it.
C9_Witness ==
    /\ phase = "idle"
    /\ tick_count >= 2
    /\ \E id \in Ids :
          /\ robots[id].position = <<0, 0>>
          /\ robots[id].speed > 0
          /\ robots[id].tracks_direction = 315

\* C10: in every state tracks_direction and aim_direction of every bot are
\* in 0..359 and speed is in 0..10, whatever integers the program passed.
C10_DirectionsAndSpeedInRange ==
    \A id \in Ids :
        /\ robots[id].tracks_direction \in 0..359
        /\ robots[id].aim_direction \in 0..359
        /\ robots[id].speed \in 0..10

\* Programs have passed -90 and 450 to SETTRACKS, 725 to SETAIM and 999 to
\* SETSPEED.
C10_Witness ==
    \E a \in Ids, b \in Ids :
        /\ robots[a].tracks_direction = 270 /\ robots[a].speed = 10
        /\ robots[b].tracks_direction = 90 /\ robots[b].aim_direction = 5

\* The bot being ticked, the top of its stack, and v limited to [lo, hi].
Self == robots[bots[cur]]
Top == Peek(Self, 0)
ClampTo(lo, hi, v) == IF v < lo THEN lo ELSE IF v > hi THEN hi ELSE v
\* execute_next is about to run the opcode op with an integer on top.
PopsInt(op) ==
    /\ Executing
    /\ CurrentToken = op
    /\ Len(Self.stack) >= 1
    /\ Top.t = "int"

\* C11: a FIRE that pops the integer p takes 2 * clamp(p, 1, 10) from the
\* bot's energy, whatever the energy was, and appends exactly one bullet to
\* the bullet list, leaving the listed bullets as they were: the bullet has
\* the bot's position, its aim direction, power clamp(p, 1, 10), speed
\* 10 + power, the bot as owner and distance_traveled 0.
C11_FireDebitsAndEnqueues ==
    [][ PopsInt("FIRE") =>
            LET power == ClampTo(1, 10, Top.n)
            IN  /\ robots'[bots[cur]].energy = Self.energy - 2 * power
                /\ bullets' = Append(bullets,
                                [ position |-> Self.position,
                                  direction |-> Self.aim_direction,
                                  power |-> power,
                                  speed |-> 10 + power,
                                  owner |-> bots[cur],
                                  distance_traveled |-> 0 ])
      ]_vars

\* A bot has fired with 99, 0, -3, 10, 10, 10 and then with 7 on 5 units of
\* energy: seven bullets, the first of power 10, the second of power 1, the
\* last of power 7, and the energy is -9.
C11_Witness ==
    /\ phase = "loop"
    /\ Self.energy = -9
    /\ Len(bullets) = 7
    /\ bullets[1].power = 10 /\ bullets[2].power = 1 /\ bullets[3].power = 1
    /\ bullets[7] = [ position |-> Self.position, direction |-> 180,
                      power |-> 7, speed |-> 17, owner |-> bots[cur],
                      distance_traveled |-> 0 ]

\* C12: a SETSPEED that pops the integer s sets speed to clamp(s, 0, 10) and
\* takes the new speed from the energy: an input of 10 or more sets 10 and
\* charges 10, a negative input sets 0 and charges nothing.
C12_SetSpeedClampsAndCharges ==
    [][ PopsInt("SETSPEED") =>
            LET new_speed == ClampTo(0, 10, Top.n)
            IN  /\ robots'[bots[cur]].speed = new_speed
                /\ robots'[bots[cur]].energy = Self.energy - new_speed
                /\ Top.n >= 10 =>
                      /\ robots'[bots[cur]].speed = 10
                      /\ robots'[bots[cur]].energy = Self.energy - 10
                /\ Top.n < 0 =>
                      /\ robots'[bots[cur]].speed = 0
                      /\ robots'[bots[cur]].energy = Self.energy
      ]_vars

\* One bot has run `999 SETSPEED` (speed 10, all its energy gone in the first
\* tick) and another has just run `-5 SETSPEED` on 3 units of energy.
C12_Witness ==
    \E a \in Ids, b \in Ids :
        /\ robots[a].name = "west" /\ robots[a].speed = 10
        /\ robots[b].name = "east" /\ robots[b].pc = 8
        /\ robots[b].speed = 0 /\ robots[b].energy = 3

\* The shortest angular distance between two directions.
ShortestTurn(old, new) ==
    LET diff == Abs(old - new) IN MinOf(diff, 360 - diff)

\* C13: a SETTRACKS that pops the integer d sets tracks_direction to d mod 360
\* (in 0..359) and takes the shortest angular distance between the old and
\* the new direction from the energy; that cost is symmetric in its two
\* arguments and lies in 0..180.
C13_SetTracksShortestTurn ==
    /\ [][ PopsInt("SETTRACKS") =>
            LET old == Self.tracks_direction
                new == ((Top.n % 360) + 360) % 360
            IN  /\ robots'[bots[cur]].tracks_direction = new
                /\ robots'[bots[cur]].energy = Self.energy - ShortestTurn(old, new)
         ]_vars
    /\ [](robots = <<>> =>
            \A a \in 0..359, b \in 0..359 :
                /\ calculate_direction_change_cost(a, b) = ShortestTurn(a, b)
                /\ calculate_direction_change_cost(a, b)
                      = calculate_direction_change_cost(b, a)
                /\ calculate_direction_change_cost(a, b) \in 0..180)

\* From tracks = 10, `350 SETTRACKS` has just run: tracks is 350 and 20 units
\* of energy are gone (70 are left of the 90).
C13_Witness ==
    /\ phase = "loop"
    /\ Self.name = "turn"
    /\ Self.pc = 4
    /\ Self.tracks_direction = 350
    /\ Self.energy = 70

\* The energy an actuator opcode charges for the integer argument n.
ActuatorCost(op, self, n) ==
    CASE op = "SETTRACKS" -> ShortestTurn(self.tracks_direction, n % 360)
      [] op = "SETAIM" -> AimCost
      [] op = "SETSPEED" -> ClampTo(0, 10, n)
      [] op = "FIRE" -> 2 * ClampTo(1, 10, n)

\* C14: an actuator opcode is never refused for lack of energy: it debits its
\* full cost without a fault, also below zero; a bot whose energy is
\* negative executes no further opcode in the tick; and a bot whose energy is
\* still negative after the +5 of a later tick only gets the +5: it neither
\* moves nor executes.
C14_EnergyDebitedNeverRefused ==
    [][ /\ \A op \in Actuators : PopsInt(op) =>
              /\ robots'[bots[cur]].energy
                    = Self.energy - ActuatorCost(op, Self, Top.n)
              /\ robots'[bots[cur]].health = Self.health
              /\ robots'[bots[cur]].pc = Self.pc + 1
        /\ (phase = "loop" /\ Self.energy < 0) =>
              /\ UNCHANGED <<robots, bullets>>
              /\ phase' = "tick" /\ cur' = cur + 1
        /\ (/\ phase = "tick" /\ cur <= Len(bots)
            /\ MilliOf(Self.health) > 0
            /\ Self.energy + EnergyRegen < 0) =>
              /\ robots' = [robots EXCEPT ![bots[cur]].energy = @ + EnergyRegen]
              /\ bullets' = bullets
              /\ phase' = "tick" /\ cur' = cur + 1
      ]_vars

\* A moving bot that fired itself down to -9 has had its next tick: its
\* energy is -4 and it is where it was spawned.
C14_Witness ==
    /\ phase = "tick"
    /\ tick_count = 2
    /\ cur >= 2
    /\ LET self == robots[bots[cur - 1]]
       IN  /\ self.energy = -4
           /\ self.speed = 9
           /\ self.position = <<100 * Milli, 100 * Milli>>

\* The hit test of bullets[bi] is about to run.
HitTesting == phase = "hits" /\ bi <= Len(bullets)
\* The centre of the bot is at a distance strictly less than the bot radius
\* from the bullet (positions in thousandths; the squares of coordinate
\* differences below the radius stay in range).
CentreWithin(bot, bullet) ==
    LET dx == Abs(bot.position[1] - bullet.position[1])
        dy == Abs(bot.position[2] - bullet.position[2])
        r == BOT_RADIUS * Milli
    IN  dx < r /\ dy < r /\ dx * dx + dy * dy < r * r
\* The places in the bot list of the bots a bullet can hit.
Targets(bullet) ==
    { k \in 1..Len(bots) :
        bots[k] # bullet.owner /\ CentreWithin(robots[bots[k]], bullet) }

\* C15: the hit test of a bullet that has not expired damages at most one bot:
\* the first bot of the list, other than the owner, whose centre is strictly
\* less than the radius from the bullet's position after its move.  That
\* bot's health goes down by power * (1 - distance_traveled / max_range), the
\* bullet is not kept, and no other bot changes; a bullet with no such bot is
\* kept as it is; and the kept bullets are the bullet list of the next tick.
C15_FirstBotInRadiusIsHit ==
    [][ /\ (HitTesting /\ bullets[bi].distance_traveled < max_range) =>
            LET bullet == bullets[bi]
                hit == Targets(bullet)
            IN  /\ hit = {} =>
                    /\ robots' = robots
                    /\ new_bullets' = Append(new_bullets, bullet)
                /\ hit # {} =>
                    \E k \in hit :
                        /\ \A j \in hit : k <= j
                        /\ robots'[bots[k]].health =
                              FloatV(MilliOf(robots[bots[k]].health)
                                     - bullet.power
                                        * (Milli - (bullet.distance_traveled * Milli)
                                                      \div max_range))
                        /\ \A id \in Ids : id # bots[k] => robots'[id] = robots[id]
                        /\ new_bullets' = new_bullets
        /\ EndStep => bullets' = new_bullets
      ]_vars

\* A bullet within the radius of the second and the third bot of the list has
\* been hit-tested: the second bot is damaged, the third is not, and the
\* bullet is not kept.
C15_Witness ==
    /\ phase = "hits"
    /\ bi = 2
    /\ Len(bots) = 3
    /\ Targets(bullets[1]) = {2, 3}
    /\ robots[bots[2]].health.t = "float"
    /\ robots[bots[3]].health = IntV(MAX_HEALTH)
    /\ new_bullets = <<>>

\* C16: every bullet leaves the arena.  A listed bullet moves once in every
\* Arena.tick, by its speed 10 + power; the hit test drops a bullet whose
\* distance_traveled has reached max_range without damaging anyone, also when
\* a bot is within its radius; so between ticks every listed bullet has
\* travelled a positive multiple of its speed that is below 1000, and a
\* non-empty bullet list becomes empty at some later time.
C16_BulletsExpire ==
    /\ [](phase = "idle" => \A k \in 1..Len(bullets) :
            /\ bullets[k].speed = 10 + bullets[k].power
            /\ bullets[k].distance_traveled > 0
            /\ bullets[k].distance_traveled % bullets[k].speed = 0
            /\ bullets[k].distance_traveled < max_range)
    /\ [][ /\ MoveStep =>
                /\ Len(bullets') = Len(bullets)
                /\ \A k \in 1..Len(bullets) :
                      bullets'[k].distance_traveled
                         = bullets[k].distance_traveled + 10 + bullets[k].power
           /\ (~MoveStep /\ ~EndStep) =>
                \A k \in 1..Len(bullets) : bullets'[k] = bullets[k]
           /\ (HitTesting /\ bullets[bi].distance_traveled >= max_range) =>
                /\ robots' = robots
                /\ new_bullets' = new_bullets
         ]_vars
    /\ (bullets # <<>>) ~> (bullets = <<>>)

\* A bullet that has travelled 1005 and lies on the centre of a bot it does
\* not own has been hit-tested: it is not kept and the bot is unharmed.
C16_Witness ==
    /\ phase = "hits"
    /\ bi = 2
    /\ bullets[1].distance_traveled = 1005
    /\ new_bullets = <<>>
    /\ \E k \in 1..Len(bots) :
          /\ bots[k] # bullets[1].owner
          /\ robots[bots[k]].position = bullets[1].position
          /\ robots[bots[k]].health = IntV(MAX_HEALTH)

\* C17: is_battle_over() holds exactly when at most one bot is listed, and
\* get_winner() is the one listed bot when exactly one is listed and no bot
\* (None) otherwise: when the list is empty and when two or more bots are
\* left.
C17_BattleOverAndWinner ==
    /\ is_battle_over <=> Cardinality(Range(bots)) <= 1
    /\ Cardinality(Range(bots)) = 1 => Range(bots) = {get_winner}
    /\ Cardinality(Range(bots)) # 1 => get_winner = 0

\* A tick of two bots in which both died is over: the list is empty, the
\* battle is over and there is no winner.
C17_Witness ==
    /\ phase = "idle"
    /\ tick_count >= 1
    /\ Len(ticked) = 2
    /\ bots = <<>>
    /\ is_battle_over
    /\ get_winner = 0

\* execute_next is about to run the opcode op on a stack of at least depth
\* values.
Runs(op, depth) ==
    /\ Executing
    /\ CurrentToken = op
    /\ Len(Self.stack) >= depth
\* The step is a fault of the bot being ticked.
Faults == robots'[bots[cur]].health = IntV(0) /\ cur' = cur + 1

\* C18 as stated: STORE takes the value from the top of the stack and the
\* name from below it.
C18_StorePopsValueFirst ==
    [][ Runs("STORE", 2) =>
            LET value == Top
                var_name == Peek(Self, 1)
            IN  IF var_name.t = "str"
                THEN /\ robots'[bots[cur]].health = Self.health
                     /\ var_name.s \in DOMAIN robots'[bots[cur]].variables
                     /\ robots'[bots[cur]].variables[var_name.s] = value
                ELSE Faults
      ]_vars

\* C18 as amended: STORE takes the name from the top of the stack and the
\* value from below it; a name that is no string is a fault, else
\* variables[name] becomes the value and no other variable changes.  LOAD
\* pops a name, which must be a string, and pushes variables[name], or the
\* integer 0 when there is none, leaving the variables as they are.
C18_StorePopsNameFirst ==
    [][ /\ Runs("STORE", 2) =>
            LET var_name == Top
                value == Peek(Self, 1)
                old == Self.variables
                new == robots'[bots[cur]].variables
            IN  IF var_name.t = "str"
                THEN /\ robots'[bots[cur]].health = Self.health
                     /\ DOMAIN new = DOMAIN old \cup {var_name.s}
                     /\ new[var_name.s] = value
                     /\ \A k \in DOMAIN old : k # var_name.s => new[k] = old[k]
                     /\ robots'[bots[cur]].stack
                           = SubSeq(Self.stack, 1, Len(Self.stack) - 2)
                ELSE Faults
        /\ Runs("LOAD", 1) =>
            IF Top.t = "str"
            THEN /\ robots'[bots[cur]].health = Self.health
                 /\ robots'[bots[cur]].variables = Self.variables
                 /\ robots'[bots[cur]].stack
                       = Append(SubSeq(Self.stack, 1, Len(Self.stack) - 1),
                                IF Top.s \in DOMAIN Self.variables
                                THEN Self.variables[Top.s] ELSE IntV(0))
            ELSE Faults
      ]_vars

\* `5 "a" STORE 7 "b" STORE 6 "a" STORE "a" LOAD "c" LOAD` has run: a is 6,
\* b is still 7, and the stack holds the 6 loaded from a and the 0 loaded
\* from the unset c.
C18_Witness ==
    /\ phase = "loop"
    /\ Self.name = "vars"
    /\ Self.pc = 13
    /\ DOMAIN Self.variables = {"a", "b"}
    /\ Self.variables["a"] = IntV(6)
    /\ Self.variables["b"] = IntV(7)
    /\ Self.stack = <<IntV(6), IntV(0)>>

\* C19: executing a label-definition token, a token that ends in ':', only
\* advances pc and the opcode counter of the bot by one: stack, variables,
\* energy and health stay as they are and there is no fault; also for a
\* label written in double quotes.
C19_LabelTokenIsNoOp ==
    [][ (Executing /\ endswith(CurrentToken, ":")) =>
            /\ robots' = [robots EXCEPT ![bots[cur]].pc = @ + 1,
                                        ![bots[cur]].ops_executed = @ + 1]
            /\ phase' = "loop"
      ]_vars

\* Scenario S4: a shooter at (100, 100) and a looping bot at (100, 300), in
\* this order, in the default arena.
S4 ==
    /\ size = DefaultSize
    /\ Len(robots) = 2
    /\ tick_count >= 1
    /\ robots[1].name = "s4" /\ robots[1].position = <<100 * Milli, 100 * Milli>>
    /\ robots[2].name = "loop" /\ robots[2].position = <<100 * Milli, 300 * Milli>>
\* The step changes the health of the second bot.
S4Hit == S4 /\ robots'[2].health # robots[2].health

\* C20 as stated: in S4 the bullet hits the second bot in tick 14, having
\* travelled 210, and the damage is 5 * (1 - 210/1000) = 3.95.
C20_S4HitInTick14 ==
    [][ S4Hit =>
            /\ tick_count = 14
            /\ bullets[bi].distance_traveled = 210
            /\ robots'[2].health = FloatV(MAX_HEALTH * Milli - 3950)
      ]_vars

\* C20 as amended: in S4 the power-5 bullet (speed 15) fired in tick 1 moves
\* in tick 1 already and hits the second bot in the hit test of tick 13, at
\* (100, 295), having travelled 195; the damage is 5 * (1 - 195/1000) = 4.025
\* and the second bot's health is 95.975 from then on.
C20_S4HitInTick13 ==
    /\ [][ S4Hit =>
            /\ HitTesting
            /\ tick_count = 13
            /\ bullets[bi].power = 5 /\ bullets[bi].speed = 15
            /\ bullets[bi].distance_traveled = 195
            /\ bullets[bi].position = <<100 * Milli, 295 * Milli>>
            /\ robots'[2].health = FloatV(MAX_HEALTH * Milli - 4025)
         ]_vars
    /\ [](S4 /\ phase = "idle" =>
            robots[2].health = IF tick_count < 13 THEN IntV(MAX_HEALTH)
                               ELSE FloatV(MAX_HEALTH * Milli - 4025))

\* Tick 13 of S4 is over: the second bot's health is 95.975 and the bullet is
\* gone.
C20_Witness ==
    /\ S4
    /\ phase = "idle"
    /\ tick_count = 13
    /\ robots[2].health = FloatV(95975)
    /\ bullets = <<>>

\* The places in the bot list of the live bots a bullet can hit.
LiveTargets(bullet) ==
    { k \in Targets(bullet) : MilliOf(robots[bots[k]].health) > 0 }

\* C21: the hit test of a bullet that has not expired looks at live bots
\* only.  A bot whose health is 0 or less when the bullet is examined is left
\* as it is; the bullet damages the first live bot, other than its owner,
\* within the radius, and is kept in flight when there is no such bot.
C21_OnlyLiveBotsAbsorb ==
    [][ (HitTesting /\ bullets[bi].distance_traveled < max_range) =>
            LET bullet == bullets[bi]
                hit == LiveTargets(bullet)
            IN  /\ \A id \in Ids :
                      MilliOf(robots[id].health) <= 0 => robots'[id] = robots[id]
                /\ hit = {} => new_bullets' = Append(new_bullets, bullet)
                /\ hit # {} =>
                      \E k \in hit :
                          /\ \A j \in hit : k <= j
                          /\ robots'[bots[k]].health # robots[bots[k]].health
                          /\ new_bullets' = new_bullets
      ]_vars

\* The other live bots of the list, in list order.
OtherLiveBots(id) ==
    LET live == {k \in 1..Len(bots) :
                    bots[k] # id /\ MilliOf(robots[bots[k]].health) > 0}
        RECURSIVE Pick(_)
        Pick(k) == IF k > Len(bots) THEN <<>>
                   ELSE IF k \in live THEN <<bots[k]>> \o Pick(k + 1)
                   ELSE Pick(k + 1)
    IN  Pick(1)

\* C22: SCAN looks at the other live bots only.  It pushes what the scan
\* finds among the listed bots whose health is above 0, so a bot that
\* faulted earlier in the tick is not detected, and it pushes the integer 0
\* when no other live bot is listed.
C22_ScanSeesLiveBotsOnly ==
    [][ Runs("SCAN", 0) =>
            /\ robots'[bots[cur]].stack
                  = Append(Self.stack,
                           scan_for_enemies(bots[cur],
                                            <<bots[cur]>> \o OtherLiveBots(bots[cur]),
                                            robots))
            /\ OtherLiveBots(bots[cur]) = <<>> =>
                  robots'[bots[cur]].stack = Append(Self.stack, IntV(0))
      ]_vars

\* The value is a Python int or a Python str.
IsIntOrStr(v) == v.t \in {"int", "str"}

\* C23: in every state every item of every bot's stack and every value of
\* its variables is an integer or a string, and every bot's health is an
\* integer; so HEALTH pushes an integer after bullet damage and SCAN pushes
\* an integer when it detects a target.
C23_OnlyIntegersAndStrings ==
    \A id \in Ids :
        /\ \A k \in 1..Len(robots[id].stack) : IsIntOrStr(robots[id].stack[k])
        /\ \A name \in DOMAIN robots[id].variables :
              IsIntOrStr(robots[id].variables[name])
        /\ robots[id].health.t = "int"

\* The cost of the costliest opcode: SETTRACKS across half a turn.
MaxOpcodeCost == calculate_direction_change_cost(0, 180)

\* C24: in every state -180 <= energy <= 100 for every bot.  Energy only
\* goes down when the bot being ticked executes an opcode, which it does
\* only with energy >= 0, and one opcode takes at most 180, the cost of
\* SETTRACKS across 180 degrees; what a tick gives back is capped at 100.
C24_EnergyBounded ==
    /\ [](\A id \in Ids :
            /\ -MaxOpcodeCost <= robots[id].energy
            /\ robots[id].energy <= MAX_ENERGY)
    /\ [][ \A id \in Ids :
              robots'[id].energy < robots[id].energy =>
                  /\ Executing
                  /\ id = bots[cur]
                  /\ robots[id].energy >= 0
                  /\ robots[id].energy - robots'[id].energy <= MaxOpcodeCost
         ]_vars

\* A bot that had spent all its energy has turned its tracks by 180 degrees:
\* its energy is -180.
C24_Witness ==
    /\ phase = "loop"
    /\ Self.name = "spin"
    /\ Self.pc = 12
    /\ Self.tracks_direction = 180
    /\ Self.energy = -180

\* The ids of the bots of the long battles whose program has an opcode that
\* costs energy.
Spenders ==
    { id \in 1..Cardinality(UNION {1..Len(battle.names) : battle \in LongBattles}) :
        \E battle \in LongBattles :
            /\ id <= Len(battle.names)
            /\ Range(Program[battle.names[id]]) \cap Actuators # {} }
\* The step is a RoboBot.tick call of a live bot that returns at line 81,
\* before any opcode.
Skips == /\ phase = "tick"
         /\ cur <= Len(bots)
         /\ MilliOf(robots[bots[cur]].health) > 0
         /\ robots[bots[cur]].energy + EnergyRegen < 0
\* The longest run of ticks without an opcode: from -180, 35 ticks of +5
\* end at -5.
MaxStarved == (MaxOpcodeCost - 1) \div EnergyRegen

\* C25: starvation ends.  A tick in which a live bot executes nothing gives
\* it 5 energy; a bot skips at most 35 ticks in a row; and a listed bot with
\* negative energy is later about to execute an opcode again, unless it has
\* left the list.  Only a bot whose program has an opcode that costs energy
\* ever has negative energy, so the last part is stated for those bots.
C25_StarvationEnds ==
    /\ [](\A id \in Ids : starved[id] <= MaxStarved)
    /\ [][ Skips =>
              /\ robots'[bots[cur]].energy
                    = robots[bots[cur]].energy + EnergyRegen
              /\ starved'[bots[cur]] = starved[bots[cur]] + 1
              /\ phase' = "tick"
         ]_vars
    /\ [](\A id \in Ids : robots[id].energy < 0 => id \in Spenders)
    /\ \A id \in Spenders :
          (id \in Ids /\ Listed(id) /\ robots[id].energy < 0)
             ~> (~Listed(id) \/ (Executing /\ bots[cur] = id))

\* The bot whose energy fell to -180 in tick 1 has skipped the ticks 2 to 36
\* and is about to execute an opcode in tick 37, with energy 0.
C25_Witness ==
    /\ Executing
    /\ tick_count = 37
    /\ Self.name = "spin"
    /\ Self.energy = 0
    /\ Self.ops_executed = 0
    /\ starved[bots[cur]] = 0
    /\ ticked = <<bots[cur]>>

\* C26: an opcode is fetched at a pc in [0, number of tokens) only.  When the
\* bot about to execute has its pc outside that range, negative or past the
\* last token, the fetch is a fault: the bot dies in this step and no token
\* is executed, so its opcode counter, pc and stack stay as they are.
C26_FetchOutsideProgramIsFatal ==
    [][ (Executing /\ (Self.pc < 0 \/ Self.pc >= Len(tokens(Self)))) =>
            /\ Faults
            /\ robots'[bots[cur]].ops_executed = Self.ops_executed
            /\ robots'[bots[cur]].pc = Self.pc
            /\ robots'[bots[cur]].stack = Self.stack
      ]_vars

\* a is b with some of its elements left out.
RECURSIVE IsSubsequence(_, _)
IsSubsequence(a, b) ==
    IF a = <<>> THEN TRUE
    ELSE IF b = <<>> THEN FALSE
    ELSE IF Head(a) = Head(b) THEN IsSubsequence(Tail(a), Tail(b))
    ELSE IsSubsequence(a, Tail(b))
\* The step belongs to an Arena.tick call: it is not an add_bot call.
TickStep == Len(robots') = Len(robots)

\* C27: in the steps of Arena.tick no bot's health goes up; a hit test that
\* changes a bot lowers its health by more than nothing; the bot list only
\* loses bots, the bots left keeping their order; and a battle that is over
\* stays over.
C27_HealthAndListOnlyShrink ==
    [][ TickStep =>
            /\ \A id \in Ids :
                  MilliOf(robots'[id].health) <= MilliOf(robots[id].health)
            /\ HitTesting =>
                  \A id \in Ids :
                      robots'[id] # robots[id] =>
                          /\ bullets[bi].distance_traveled < max_range
                          /\ MilliOf(robots'[id].health) < MilliOf(robots[id].health)
            /\ IsSubsequence(bots', bots)
            /\ is_battle_over => is_battle_over'
      ]_vars

\* Two bots were added and the first died of a fault in tick 1: it left the
\* list with health 0, the battle was over after tick 1 and is still over
\* after a later tick.
C27_Witness ==
    /\ phase = "idle"
    /\ tick_count >= 2
    /\ Len(robots) = 2
    /\ robots[1].health = IntV(0)
    /\ bots = <<2>>
    /\ is_battle_over

====
